---------------------------- MODULE Spec2Model ----------------------------
(***************************************************************************)
(* A model of sbash's lib.rs: Script::parse (name uniqueness and the       *)
(* single-public-main detection), Script::parse_args (the clap command     *)
(* line built from a Script and its reduction to an FnCall), the Display   *)
(* rendering of a Script (line-preserving shell code generation) and       *)
(* Description (joining comment fragments).                                *)
(*                                                                         *)
(* Text is modelled as a sequence of tokens.  A token is an opaque piece   *)
(* of text that holds no line break, except the token NL, which is one     *)
(* line break.  Identifiers (item and argument names) are single tokens.   *)
(***************************************************************************)
EXTENDS Integers, Sequences, FiniteSets, TLC

VARIABLES
    source,       \* the source text handed to the parser, as a layout of items
    parser_out,   \* result of parser::parse(input)
    script,       \* result of Script::parse
    argv,         \* the process arguments handed to parse_args
    call,         \* result of Script::parse_args
    out,          \* result of formatting the Script with Display
    fragments,    \* the pre/post description fragments given to Description::new
    description   \* the Description built and its Option<&str> view

vars == <<source, parser_out, script, argv, call, out, fragments, description>>

-----------------------------------------------------------------------------
(* Bounds of the model *)

MaxItems == 2      \* items of a script
MaxArgs == 2       \* declared arguments of an item
MaxArgv == 3       \* process arguments after the program name
MaxBody == 2       \* tokens of an item's body
MaxLine == 5       \* largest recorded body line number
MaxLead == 2       \* line breaks of the source before an item's header
MaxFrags == 2      \* pre-description fragments, and post-description fragments
MaxFragLen == 2    \* characters of a description fragment

-----------------------------------------------------------------------------
(* Generic helpers *)

SeqsUpTo(S, n) == UNION {[1..k -> S] : k \in 0..n}

IsInjective(s) == \A i, j \in DOMAIN s : s[i] = s[j] => i = j

None == [some |-> FALSE]

Some(v) == [some |-> TRUE, value |-> v]

Pending == [kind |-> "pending"]

-----------------------------------------------------------------------------
(* Items as the parser yields them.  Descriptions of items and arguments   *)
(* only feed the help text and are left out of Item.                       *)

Names == {"main", "build", "test"}

ArgNames == {"x", "y"}

\* FnSignature.args: ItemArg names, unique within an item.
ArgLists == {a \in SeqsUpTo(ArgNames, MaxArgs) : IsInjective(a)}

Item(name, args, is_pub, is_inline, body, body_line_number) ==
    [name |-> name, args |-> args, is_pub |-> is_pub, is_inline |-> is_inline,
     body |-> body, body_line_number |-> body_line_number]

\* Items of the command-line specifications: every name, argument list and
\* visibility; an empty body recorded on line 2.
CliItems ==
    {Item(n, a, p, FALSE, <<>>, 2) : n \in Names, a \in ArgLists, p \in BOOLEAN}

-----------------------------------------------------------------------------
(* Script::parse *)

\* Mutant of ParseLoop: the index of a public main is kept whatever the count
\* of public items.
RECURSIVE ParseLoop_KeepsIndex(_, _, _, _, _)
ParseLoop_KeepsIndex(items, index, names, only_pub_main_index, pub_count) ==
    IF index >= Len(items)
    THEN [kind |-> "Ok", items |-> items, only_pub_main_index |-> only_pub_main_index]
    ELSE LET item == items[index + 1]
             name == item.name
         IN  IF name \in names
             THEN [kind |-> "panic", index |-> index]
             ELSE ParseLoop_KeepsIndex(items, index + 1, names \cup {name},
                            IF item.is_pub /\ name = "main"
                            THEN Some(index) ELSE only_pub_main_index,
                            IF item.is_pub THEN pub_count + 1 ELSE pub_count)

\* Mutant of ParseLoop: a name met again is let through.
RECURSIVE ParseLoop_NoAssert(_, _, _, _, _)
ParseLoop_NoAssert(items, index, names, only_pub_main_index, pub_count) ==
    IF index >= Len(items)
    THEN [kind |-> "Ok",
          items |-> items,
          only_pub_main_index |->
              IF pub_count # 1 THEN None ELSE only_pub_main_index]
    ELSE LET item == items[index + 1]
             name == item.name
         IN  ParseLoop_NoAssert(items, index + 1, names \cup {name},
                            IF item.is_pub /\ name = "main"
                            THEN Some(index) ELSE only_pub_main_index,
                            IF item.is_pub THEN pub_count + 1 ELSE pub_count)

\* The loop over items.enumerate(); index counts from 0 as in the source.
RECURSIVE ParseLoop(_, _, _, _, _)
ParseLoop(items, index, names, only_pub_main_index, pub_count) ==
    IF index >= Len(items)
    THEN [kind |-> "Ok",
          items |-> items,
          only_pub_main_index |->
              IF pub_count # 1 THEN None ELSE only_pub_main_index]
    ELSE LET item == items[index + 1]
             name == item.name
         IN  IF name \in names
             THEN [kind |-> "panic", index |-> index]   \* assert!(names.insert(name))
             ELSE ParseLoop(items, index + 1, names \cup {name},
                            IF item.is_pub /\ name = "main"
                            THEN Some(index) ELSE only_pub_main_index,
                            IF item.is_pub THEN pub_count + 1 ELSE pub_count)

ScriptParseResult(parsed) ==
    IF parsed.kind = "Err"
    THEN [kind |-> "Err"]                               \* parser::parse(input)?
    ELSE ParseLoop(parsed.items, 0, {}, None, 0)

ScriptParse ==
    /\ parser_out.kind # "pending"
    /\ script.kind = "pending"
    /\ script' = ScriptParseResult(parser_out)
    /\ UNCHANGED <<source, parser_out, argv, call, out, fragments, description>>

-----------------------------------------------------------------------------
(* The command line: Script::parse_args and the clap engine it drives.     *)
(*                                                                         *)
(* An App is the data the builder calls accumulate: its long flags, its    *)
(* positional arguments in the order they were added (each required and    *)
(* single-valued), its subcommands in the order they were added, and the   *)
(* SubcommandRequiredElseHelp setting.                                     *)

DEBUG_FLAG == "debug"

DebugToken == "--debug"

ExeName == "prog"

\* What a process argument may be: the flag, or a word.  A word that names
\* an item is also a legal value of a positional argument.
Tokens == {DebugToken} \cup Names

Argvs == {<<ExeName>> \o t : t \in SeqsUpTo(Tokens, MaxArgv)}

AppNew(name) ==
    [name |-> name, flags |-> {}, positionals |-> <<>>, subcommands |-> <<>>,
     subcommand_required |-> FALSE]

NoMatches == [args |-> <<>>, subcommand |-> None]

\* ArgMatches keeps, per argument name, the values given to it; a flag that
\* was given has an entry without values.
AddFlag(m, name) == [m EXCEPT !.args = (name :> <<>>) @@ @]

AddVal(m, name, value) ==
    [m EXCEPT !.args =
        (name :> (IF name \in DOMAIN @ THEN @[name] ELSE <<>>) \o <<value>>) @@ @]

IsPresent(m, name) == name \in DOMAIN m.args

Exit == [kind |-> "exit"]

SubcommandIndex(app, word) ==
    {k \in DOMAIN app.subcommands : app.subcommands[k].name = word}

\* clap's parse of the words after the program name against one App.  A
\* flag is known to the App it was added to only (parse_args adds --debug to
\* the top-level App and does not make it global; a subcommand is a fresh
\* App::new(name) holding positionals).  A word that names a subcommand
\* selects it and the rest is parsed against the subcommand's App; any other
\* word is the value of the next positional.  An unknown flag, a repeated
\* flag, a word with no positional left to take it, a missing required
\* positional and a missing required subcommand all end the process with the
\* engine's usage or help text.  Item and argument names are taken to be
\* distinct from the reserved name `debug`.
RECURSIVE Matcher(_, _, _, _)
Matcher(app, words, pos, m) ==
    IF words = <<>>
    THEN IF \E k \in DOMAIN app.positionals : ~IsPresent(m, app.positionals[k])
         THEN Exit
         ELSE IF app.subcommand_required
              THEN Exit
              ELSE [kind |-> "ok", matches |-> m]
    ELSE LET word == Head(words)
             rest == Tail(words)
         IN  IF word = DebugToken
             THEN IF DEBUG_FLAG \in app.flags /\ ~IsPresent(m, DEBUG_FLAG)
                  THEN Matcher(app, rest, pos, AddFlag(m, DEBUG_FLAG))
                  ELSE Exit
             ELSE IF SubcommandIndex(app, word) # {}
                  THEN LET sub == app.subcommands[CHOOSE k \in SubcommandIndex(app, word) : TRUE]
                           got == Matcher(sub, rest, 0, NoMatches)
                       IN  IF got.kind # "ok"
                           THEN got
                           ELSE IF \E k \in DOMAIN app.positionals :
                                       ~IsPresent(m, app.positionals[k])
                                THEN Exit
                                ELSE [kind |-> "ok",
                                      matches |->
                                          [m EXCEPT !.subcommand =
                                              Some([name |-> word, matches |-> got.matches])]]
                  ELSE IF pos < Len(app.positionals)
                       THEN Matcher(app, rest, pos + 1,
                                    AddVal(m, app.positionals[pos + 1], word))
                       ELSE Exit

\* App::get_matches_from: the first element is the program name.
GetMatchesFrom(app, args) ==
    IF args = <<>> THEN Matcher(app, <<>>, 0, NoMatches)
    ELSE Matcher(app, Tail(args), 0, NoMatches)

\* item_arg_spec: one required single-valued positional per ItemArg, and the
\* argument names in the order they were pushed.
RECURSIVE ItemArgSpecLoop(_, _, _, _)
ItemArgSpecLoop(app, item_args, k, arg_names) ==
    IF k > Len(item_args)
    THEN [app |-> app, arg_names |-> arg_names]
    ELSE ItemArgSpecLoop([app EXCEPT !.positionals = Append(@, item_args[k])],
                         item_args, k + 1, Append(arg_names, item_args[k]))

\* Mutant of ItemArgSpec: the argument names are collected in reverse.
ItemArgSpec_Reversed(app, item) ==
    LET spec == ItemArgSpecLoop(app, item.args, 1, <<>>)
    IN  [spec EXCEPT !.arg_names =
            [k \in DOMAIN @ |-> @[Len(@) + 1 - k]]]

ItemArgSpec(app, item) == ItemArgSpecLoop(app, item.args, 1, <<>>)

\* extract_args: Some(values) when every argument has exactly one value,
\* None when an unwrap or the assertion fails.
ExtractArgs(arg_matches, item_args) ==
    IF \A k \in DOMAIN item_args :
           /\ IsPresent(arg_matches, item_args[k])
           /\ Len(arg_matches.args[item_args[k]]) = 1
    THEN Some([k \in DOMAIN item_args |-> arg_matches.args[item_args[k]][1]])
    ELSE None

Panic == [kind |-> "panic"]

\* Mutant of FnCallNew: the debug flag is read from the subcommand's matches.
FnCallNew_SubcmdDebug(name, arg_matches, subcmd_matches, arg_names) ==
    LET args == ExtractArgs(subcmd_matches, arg_names)
    IN  IF ~args.some
        THEN Panic
        ELSE [kind |-> "FnCall", name |-> name, args |-> args.value,
              debug |-> IsPresent(subcmd_matches, DEBUG_FLAG)]

\* FnCall::new
FnCallNew(name, arg_matches, subcmd_matches, arg_names) ==
    LET args == ExtractArgs(subcmd_matches, arg_names)
    IN  IF ~args.some
        THEN Panic
        ELSE [kind |-> "FnCall", name |-> name, args |-> args.value,
              debug |-> IsPresent(arg_matches, DEBUG_FLAG)]

\* The app parse_args starts from: the reserved top-level flag.
TopLevelApp(exe_name) == [AppNew(exe_name) EXCEPT !.flags = {DEBUG_FLAG}]

\* Script::single_item_args
SingleItemArgs(s, main_index, app, args) ==
    LET item == s.items[main_index + 1]
        spec == ItemArgSpec(app, item)
        got == GetMatchesFrom(spec.app, args)
    IN  IF got.kind # "ok"
        THEN got
        ELSE FnCallNew(item.name, got.matches, got.matches, spec.arg_names)

\* Mutant of SubcmdLoop: every item becomes a subcommand, public or not.
RECURSIVE SubcmdLoop_AllItems(_, _, _, _)
SubcmdLoop_AllItems(items, k, app, name_to_args) ==
    IF k > Len(items)
    THEN [app |-> app, name_to_args |-> name_to_args]
    ELSE LET item == items[k]
             spec == ItemArgSpec(AppNew(item.name), item)
         IN  SubcmdLoop_AllItems(items, k + 1,
                             [app EXCEPT !.subcommands = Append(@, spec.app)],
                             (item.name :> spec.arg_names) @@ name_to_args)

\* The loop of subcmd_args: one subcommand per public item, and the map from
\* its name to its argument names.
RECURSIVE SubcmdLoop(_, _, _, _)
SubcmdLoop(items, k, app, name_to_args) ==
    IF k > Len(items)
    THEN [app |-> app, name_to_args |-> name_to_args]
    ELSE LET item == items[k]
             spec == ItemArgSpec(AppNew(item.name), item)
         IN  IF item.is_pub
             THEN SubcmdLoop(items, k + 1,
                             [app EXCEPT !.subcommands = Append(@, spec.app)],
                             (item.name :> spec.arg_names) @@ name_to_args)
             ELSE SubcmdLoop(items, k + 1, app, name_to_args)

\* Script::subcmd_args
SubcmdArgs(s, app, args) ==
    LET built == SubcmdLoop(s.items, 1,
                            [app EXCEPT !.subcommand_required = TRUE], <<>>)
        got == GetMatchesFrom(built.app, args)
    IN  IF got.kind # "ok"
        THEN got
        ELSE IF ~got.matches.subcommand.some
             THEN Panic                          \* arg_matches.subcommand().unwrap()
             ELSE LET name == got.matches.subcommand.value.name
                  IN  IF name \notin DOMAIN built.name_to_args
                      THEN Panic                 \* name_to_args.remove(name).unwrap()
                      ELSE FnCallNew(name, got.matches,
                                     got.matches.subcommand.value.matches,
                                     built.name_to_args[name])

\* Script::parse_args
ParseArgsResult(s, exe_name, args) ==
    LET app == TopLevelApp(exe_name)
    IN  IF s.only_pub_main_index.some
        THEN SingleItemArgs(s, s.only_pub_main_index.value, app, args)
        ELSE SubcmdArgs(s, app, args)

ParseArgs ==
    /\ script.kind = "Ok"
    /\ call.kind = "pending"
    /\ \E args \in Argvs :
           /\ argv' = args
           /\ call' = ParseArgsResult(script, ExeName, args)
    /\ UNCHANGED <<source, parser_out, script, out, fragments, description>>

-----------------------------------------------------------------------------
(* The command-line specification: the parser hands over any sequence of   *)
(* items (or fails), Script::parse validates it, parse_args resolves the   *)
(* process arguments.                                                      *)

InitCli ==
    /\ source = <<>>
    /\ \/ parser_out = [kind |-> "Err"]
       \/ \E n \in 0..MaxItems : \E i \in [1..n -> CliItems] :
              parser_out = [kind |-> "Ok", items |-> i]
    /\ script = Pending
    /\ argv = <<>>
    /\ call = Pending
    /\ out = Pending
    /\ fragments = Pending
    /\ description = Pending

NextCli == ScriptParse \/ ParseArgs

SpecCli == InitCli /\ [][NextCli]_vars

-----------------------------------------------------------------------------
(* Code generation: Display for Script, Item::script, FnSignature::args    *)

NL == "\n"

Cmd == "echo \"$x\""

BodyTokens == {Cmd, NL}

\* The bodies: at most MaxBody tokens, commands and line breaks alternating
\* (two commands in a row are one longer command).
Bodies ==
    {b \in SeqsUpTo(BodyTokens, MaxBody) :
        \A i \in 1..(Len(b) - 1) : b[i] # b[i + 1]}

\* Mutant of CountNewlines: a line break is counted only when it ends a
\* line that holds text.
CountNewlines_NonBlank(s) ==
    Cardinality({i \in DOMAIN s : s[i] = NL /\ i > 1 /\ s[i - 1] # NL})

\* count_newlines
CountNewlines(s) == Cardinality({i \in DOMAIN s : s[i] = NL})

\* "\n".repeat(n)
RepeatNL(n) == [i \in 1..n |-> NL]

\* Mutant of FnSignatureArgs: the bindings come out last argument first.
RECURSIVE FnSignatureArgs_Reversed(_)
FnSignatureArgs_Reversed(args) ==
    IF args = <<>>
    THEN <<>>
    ELSE FnSignatureArgs_Reversed(Tail(args)) \o <<Head(args), "=\"$1\"; shift; ">>

\* FnSignature::args: one binding per declared argument, in declaration order.
RECURSIVE FnSignatureArgs(_)
FnSignatureArgs(args) ==
    IF args = <<>>
    THEN <<>>
    ELSE <<Head(args), "=\"$1\"; shift; ">> \o FnSignatureArgs(Tail(args))

\* Mutant of ItemScript: the header is taken to sit on the body's line.
ItemScript_BodyOnHeaderLine(item, newline_count) ==
    LET name == item.name
        current_line == newline_count + 1
        current_body_line == current_line
        desired_body_line == item.body_line_number
        extra_newlines == RepeatNL(desired_body_line - current_body_line)
    IN  IF ~(desired_body_line >= current_body_line)
        THEN None
        ELSE IF item.body = <<>>
             THEN Some(extra_newlines \o <<name, " () { :; }">>)
             ELSE IF item.is_inline
                  THEN Some(extra_newlines \o <<name, " () { ">>
                            \o FnSignatureArgs(item.args) \o <<NL>>
                            \o item.body \o <<"};">>)
                  ELSE Some(extra_newlines \o <<name, " () { ( ">>
                            \o FnSignatureArgs(item.args) \o <<NL>>
                            \o item.body \o <<") };">>)

\* Item::script: None when the assertion on the body line fails.
ItemScript(item, newline_count) ==
    LET name == item.name
        current_line == newline_count + 1
        current_body_line == current_line + 1
        desired_body_line == item.body_line_number
        extra_newlines == RepeatNL(desired_body_line - current_body_line)
    IN  IF ~(desired_body_line >= current_body_line)
        THEN None
        ELSE IF item.body = <<>>
             THEN Some(extra_newlines \o <<name, " () { :; }">>)
             ELSE IF item.is_inline
                  THEN Some(extra_newlines \o <<name, " () { ">>
                            \o FnSignatureArgs(item.args) \o <<NL>>
                            \o item.body \o <<"};">>)
                  ELSE Some(extra_newlines \o <<name, " () { ( ">>
                            \o FnSignatureArgs(item.args) \o <<NL>>
                            \o item.body \o <<") };">>)

\* The loop of Display::fmt over the items, k counting from 1.
RECURSIVE FmtLoop(_, _, _)
FmtLoop(items, k, text) ==
    IF k > Len(items)
    THEN [kind |-> "text", text |-> text]
    ELSE LET piece == ItemScript(items[k], CountNewlines(text))
         IN  IF ~piece.some
             THEN [kind |-> "panic", item |-> k]
             ELSE FmtLoop(items, k + 1, text \o piece.value)

Fmt ==
    /\ script.kind = "Ok"
    /\ out.kind = "pending"
    /\ out' = FmtLoop(script.items, 1, <<>>)
    /\ UNCHANGED <<source, parser_out, script, argv, call, fragments, description>>

\* The signatures of the rendered scripts: the k-th item of a script
\* declares the k-th of these (names are distinct, as Script::parse demands).
Signatures ==
    << [name |-> "g", args |-> <<"x", "y">>],
       [name |-> "f", args |-> <<"x">>],
       [name |-> "main", args |-> <<>>] >>

SignatureAt(k) == Signatures[((k - 1) % Len(Signatures)) + 1]

\* What varies per item in a script of the rendering specification: any
\* inlining flag, any body and any recorded body line.
RenderChoices == [is_inline : BOOLEAN, body : Bodies, line : 1..MaxLine]

RenderScript(c) ==
    [k \in DOMAIN c |-> Item(SignatureAt(k).name, SignatureAt(k).args, FALSE,
                             c[k].is_inline, c[k].body, c[k].line)]

InitRender ==
    /\ source = <<>>
    /\ \E n \in 0..MaxItems : \E c \in [1..n -> RenderChoices] :
           parser_out = [kind |-> "Ok", items |-> RenderScript(c)]
    /\ script = Pending
    /\ argv = <<>>
    /\ call = Pending
    /\ out = Pending
    /\ fragments = Pending
    /\ description = Pending

NextRender == ScriptParse \/ Fmt

SpecRender == InitRender /\ [][NextRender]_vars

-----------------------------------------------------------------------------
(* The parser, as far as the body line is concerned: each item of the      *)
(* source is `lead` line breaks (blank and comment lines, or none), its    *)
(* header with the opening brace, its body verbatim and the closing brace. *)
(* The recorded body line is the 1-based source line the body starts on.   *)

SourceItems == [lead : 0..MaxLead, is_inline : BOOLEAN, body : Bodies]

Header(k) ==
    <<"fn ", SignatureAt(k).name, "(">> \o SignatureAt(k).args \o <<") {">>

RECURSIVE ParserLoop(_, _, _, _)
ParserLoop(src, k, text, items) ==
    IF k > Len(src)
    THEN [kind |-> "Ok", items |-> items]
    ELSE LET before == text \o RepeatNL(src[k].lead) \o Header(k)
         IN  ParserLoop(src, k + 1, before \o src[k].body \o <<"}">>,
                        Append(items,
                               Item(SignatureAt(k).name, SignatureAt(k).args, FALSE,
                                    src[k].is_inline, src[k].body,
                                    1 + CountNewlines(before))))

ParserParse ==
    /\ parser_out.kind = "pending"
    /\ parser_out' = ParserLoop(source, 1, <<>>, <<>>)
    /\ UNCHANGED <<source, script, argv, call, out, fragments, description>>

InitSource ==
    /\ \E n \in 0..MaxItems : source \in [1..n -> SourceItems]
    /\ parser_out = Pending
    /\ script = Pending
    /\ argv = <<>>
    /\ call = Pending
    /\ out = Pending
    /\ fragments = Pending
    /\ description = Pending

NextSource == ParserParse \/ ScriptParse \/ Fmt

SpecSource == InitSource /\ [][NextSource]_vars

-----------------------------------------------------------------------------
(* Description: a fragment is a sequence of characters.                    *)

Space == " "

FragChars == {Space, "a"}

Fragments == SeqsUpTo(FragChars, MaxFragLen)

\* str::trim
RECURSIVE TrimStart(_)
TrimStart(s) == IF s # <<>> /\ Head(s) = Space THEN TrimStart(Tail(s)) ELSE s

RECURSIVE TrimEnd(_)
TrimEnd(s) ==
    IF s # <<>> /\ s[Len(s)] = Space THEN TrimEnd(SubSeq(s, 1, Len(s) - 1)) ELSE s

Trim(s) == TrimEnd(TrimStart(s))

\* Itertools::join
RECURSIVE Join(_, _)
Join(parts, sep) ==
    IF parts = <<>> THEN <<>>
    ELSE IF Len(parts) = 1 THEN parts[1]
    ELSE parts[1] \o sep \o Join(Tail(parts), sep)

\* Description::new
DescriptionText(pre_description, post_description) ==
    LET chained == pre_description \o post_description
    IN  Join([k \in DOMAIN chained |-> Trim(chained[k])], <<Space>>)

\* From<&Description> for Option<&str>
DescriptionOption(text) == IF text # <<>> THEN Some(text) ELSE None

DescriptionNew ==
    /\ description.kind = "pending"
    /\ \E pre \in SeqsUpTo(Fragments, MaxFrags), post \in SeqsUpTo(Fragments, MaxFrags) :
           /\ fragments' = [kind |-> "given", pre |-> pre, post |-> post]
           /\ description' = [kind |-> "built", text |-> DescriptionText(pre, post)]
    /\ UNCHANGED <<source, parser_out, script, argv, call, out>>

DescriptionInto ==
    /\ description.kind = "built"
    /\ description' = [kind |-> "viewed", text |-> description.text,
                       option |-> DescriptionOption(description.text)]
    /\ UNCHANGED <<source, parser_out, script, argv, call, out, fragments>>

InitDesc ==
    /\ source = <<>>
    /\ parser_out = Pending
    /\ script = Pending
    /\ argv = <<>>
    /\ call = Pending
    /\ out = Pending
    /\ fragments = Pending
    /\ description = Pending

NextDesc == DescriptionNew \/ DescriptionInto

SpecDesc == InitDesc /\ [][NextDesc]_vars

-----------------------------------------------------------------------------
(* Properties of Script::parse and Script::parse_args, under SpecCli       *)

PubIndices(items) == {k \in DOMAIN items : items[k].is_pub}

\* The words of the process arguments: all but the program name and the flag.
Words(args) == SelectSeq(Tail(args), LAMBDA t : t # DebugToken)

\* C2: after Script::parse succeeds, only_pub_main_index is Some(i) exactly
\* when one item alone is public and it is named main, i being its index;
\* otherwise it is None, and parse_args then resolves through a subcommand
\* (the first word names the call) instead of taking every word as a value.
C2_SingleMainDetection ==
    script.kind = "Ok" =>
        LET pubs == PubIndices(script.items)
            single == /\ Cardinality(pubs) = 1
                      /\ \A k \in pubs : script.items[k].name = "main"
        IN  /\ single =>
                \A k \in pubs : script.only_pub_main_index = Some(k - 1)
            /\ ~single => script.only_pub_main_index = None
            /\ call.kind = "FnCall" =>
                IF single
                THEN call.name = "main" /\ Len(call.args) = Len(Words(argv))
                ELSE /\ Words(argv) # <<>>
                     /\ call.name = Words(argv)[1]
                     /\ Len(call.args) = Len(Words(argv)) - 1

\* C2 witness: a private item first, the only public item main second, and a
\* call resolved in single-entry-point mode.
C2_Witness ==
    /\ script.kind = "Ok"
    /\ Len(script.items) = 2
    /\ ~script.items[1].is_pub
    /\ script.items[2].is_pub
    /\ script.only_pub_main_index = Some(1)
    /\ call.kind = "FnCall"
    /\ Len(call.args) = 1

\* The indices (from 0) of the items whose name an earlier item has.
Repeats(items) ==
    {j - 1 : j \in {j \in DOMAIN items : \E i \in 1..(j - 1) : items[i].name = items[j].name}}

\* C3: when two parsed items share a name, Script::parse panics at the first
\* item that repeats a name and yields no Script; every Script it yields has
\* pairwise distinct item names.
C3_Uniqueness ==
    /\ script.kind = "Ok" =>
           \A i, j \in DOMAIN script.items :
               script.items[i].name = script.items[j].name => i = j
    /\ (parser_out.kind = "Ok" /\ script.kind # "pending"
            /\ Repeats(parser_out.items) # {}) =>
           /\ script.kind = "panic"
           /\ script.index \in Repeats(parser_out.items)
           /\ \A j \in Repeats(parser_out.items) : script.index <= j

\* C3 witness: parse has panicked on a public and a private item of one name.
C3_Witness ==
    /\ script.kind = "panic"
    /\ script.index = 1
    /\ parser_out.items[1].is_pub
    /\ ~parser_out.items[2].is_pub
    /\ parser_out.items[1].name = parser_out.items[2].name

\* The values the command line gives the declared arguments, in the order
\* given: every word in single-entry-point mode, every word after the
\* subcommand's name otherwise.
BoundValues ==
    IF script.only_pub_main_index.some THEN Words(argv) ELSE Tail(Words(argv))

\* C4: an FnCall holds one value per declared argument of the item it names,
\* the k-th value being the one the command line bound to the k-th argument.
C4_ArgumentOrder ==
    call.kind = "FnCall" =>
        \E k \in DOMAIN script.items :
            /\ script.items[k].name = call.name
            /\ Len(call.args) = Len(script.items[k].args)
            /\ call.args = BoundValues

\* C4 witness: a call resolved through a subcommand with two different values.
C4_Witness ==
    /\ call.kind = "FnCall"
    /\ ~script.only_pub_main_index.some
    /\ Len(call.args) = 2
    /\ call.args[1] # call.args[2]

\* C5: in multi-subcommand mode the subcommands are exactly the public
\* items, one each, and the name of every FnCall is the name of a public item.
C5_VisibilityGates ==
    /\ (script.kind = "Ok" /\ ~script.only_pub_main_index.some) =>
           LET app == SubcmdLoop(script.items, 1, TopLevelApp(ExeName), <<>>).app
           IN  /\ {app.subcommands[k].name : k \in DOMAIN app.subcommands}
                      = {script.items[k].name : k \in PubIndices(script.items)}
               /\ Len(app.subcommands) = Cardinality(PubIndices(script.items))
    /\ call.kind = "FnCall" =>
           \E k \in PubIndices(script.items) : script.items[k].name = call.name

\* C5 witness: a call resolved through a subcommand of a script that also
\* holds a private item.
C5_Witness ==
    /\ call.kind = "FnCall"
    /\ ~script.only_pub_main_index.some
    /\ \E k \in DOMAIN script.items : ~script.items[k].is_pub

\* Scenario B: the public items build and test, without arguments.
ScenarioB ==
    /\ script.kind = "Ok"
    /\ Len(script.items) = 2
    /\ script.items[1].name = "build"
    /\ script.items[2].name = "test"
    /\ \A k \in 1..2 : script.items[k].is_pub /\ script.items[k].args = <<>>

GivenDebug == \E i \in 2..Len(argv) : argv[i] = DebugToken

-----------------------------------------------------------------------------
(* Properties of the rendering, under SpecRender.  The rendered text is    *)
(* read back here without the operators that produced it.                  *)

\* The line, counted from 1, of the token at position pos of a text.
LineAt(text, pos) == 1 + Cardinality({i \in 1..(pos - 1) : text[i] = NL})

Bind == "=\"$1\"; shift; "

NoOp == " () { :; }"

OpenBlock == " () { "

OpenSubshell == " () { ( "

\* The position of an item's name in the text: the names of a Script are
\* distinct, and no body, argument or fixed piece is a name.
NamePos(text, name) == CHOOSE i \in DOMAIN text : text[i] = name

\* The line breaks that stand right before position pos.
RECURSIVE PaddingBefore(_, _)
PaddingBefore(text, pos) ==
    IF pos > 1 /\ text[pos - 1] = NL THEN 1 + PaddingBefore(text, pos - 1) ELSE 0

\* Where the body of an item with a body starts: after the name, the opening
\* piece, two tokens per declared argument and one line break.
BodyPos(text, item) == NamePos(text, item.name) + 2 + 2 * Len(item.args) + 1

\* C1: when rendering does not abort, the first token of every non-empty
\* body stands on the line recorded as the item's body_line_number.
C1_LineFidelity ==
    out.kind = "text" =>
        \A k \in DOMAIN script.items :
            LET item == script.items[k]
            IN  item.body # <<>> =>
                    /\ \E i \in DOMAIN out.text : out.text[i] = item.name
                    /\ BodyPos(out.text, item) + Len(item.body) - 1 <= Len(out.text)
                    /\ SubSeq(out.text, BodyPos(out.text, item),
                              BodyPos(out.text, item) + Len(item.body) - 1) = item.body
                    /\ LineAt(out.text, BodyPos(out.text, item)) = item.body_line_number

\* C1 witness: two rendered items with bodies, the first body holding a line
\* break, the second item padded.
C1_Witness ==
    /\ out.kind = "text"
    /\ Len(script.items) = 2
    /\ script.items[1].body = <<Cmd, NL>>
    /\ script.items[2].body # <<>>
    /\ script.items[2].body_line_number = MaxLine
    /\ PaddingBefore(out.text, NamePos(out.text, script.items[2].name)) > 0

\* The form of an item after its padding, as the three cases state it.
Prologue(args) ==
    [i \in 1..(2 * Len(args)) |-> IF i % 2 = 1 THEN args[(i + 1) \div 2] ELSE Bind]

Form(item) ==
    IF item.body = <<>>
    THEN <<item.name, NoOp>>
    ELSE IF item.is_inline
         THEN <<item.name, OpenBlock>> \o Prologue(item.args) \o <<NL>>
                  \o item.body \o <<"};">>
         ELSE <<item.name, OpenSubshell>> \o Prologue(item.args) \o <<NL>>
                  \o item.body \o <<") };">>

\* The first position from pos on that holds no line break.
RECURSIVE SkipPadding(_, _)
SkipPadding(text, pos) ==
    IF pos <= Len(text) /\ text[pos] = NL THEN SkipPadding(text, pos + 1) ELSE pos

\* The text from pos on is, item by item from the k-th, padding followed by
\* the item's form, and ends with the last form.
RECURSIVE IsFormsFrom(_, _, _, _)
IsFormsFrom(items, k, text, pos) ==
    IF k > Len(items)
    THEN pos = Len(text) + 1
    ELSE LET start == SkipPadding(text, pos)
             form == Form(items[k])
         IN  /\ start + Len(form) - 1 <= Len(text)
             /\ SubSeq(text, start, start + Len(form) - 1) = form
             /\ IsFormsFrom(items, k + 1, text, start + Len(form))

\* C9: the rendered text is, in item order, each item's padding followed by
\* its form: the no-op function for an empty body whatever the arguments and
\* the inline flag, the brace block for a non-empty inline body, the subshell
\* in a brace block otherwise, the last two with one binding per declared
\* argument in declaration order; nothing follows the last item.
C9_FormSelection ==
    out.kind = "text" => IsFormsFrom(script.items, 1, out.text, 1)

\* C9 witness: a padded subshell item with two arguments, then an inline item
\* with one argument.
C9_Witness ==
    /\ out.kind = "text"
    /\ Len(script.items) = 2
    /\ script.items[1].body # <<>> /\ ~script.items[1].is_inline
    /\ Len(script.items[1].args) = 2
    /\ script.items[1].body_line_number > 2
    /\ script.items[2].body # <<>> /\ script.items[2].is_inline

\* Scenario C: an item with an empty body whose rendering ends on line 2,
\* then the inline item f(x) with the body `echo "$x"` recorded on line 5.
ScenarioC ==
    /\ out.kind = "text"
    /\ Len(script.items) = 2
    /\ script.items[1].body = <<>>
    /\ LineAt(out.text, NamePos(out.text, script.items[1].name) + 1) = 2
    /\ script.items[2] = Item("f", <<"x">>, FALSE, TRUE, <<Cmd>>, 5)

\* C10: the line breaks emitted before an item's header number
\* body_line_number - (current_line + 1), current_line being 1 + the line
\* breaks of the text before them; in Scenario C that is 2 before f's header,
\* and the body of f stands on line 5.
C10_PaddingAmount ==
    /\ out.kind = "text" =>
           \A k \in DOMAIN script.items :
               LET at == NamePos(out.text, script.items[k].name)
                   padding == PaddingBefore(out.text, at)
                   current_line == LineAt(out.text, at - padding)
               IN  padding = script.items[k].body_line_number - (current_line + 1)
    /\ ScenarioC =>
           /\ PaddingBefore(out.text, NamePos(out.text, "f")) = 2
           /\ out.text[BodyPos(out.text, script.items[2])] = Cmd
           /\ LineAt(out.text, BodyPos(out.text, script.items[2])) = 5

\* C10 witness: Scenario C, rendered.
C10_Witness == ScenarioC

-----------------------------------------------------------------------------
(* Property of the body line check, under SpecSource *)

\* C8: rendering the Script parsed from a well-formed source never fails the
\* check body_line_number >= current_line + 1.
C8_AbortUnreachable == out.kind # "panic"

-----------------------------------------------------------------------------
(* Property of Description, under SpecDesc *)

\* C7: the Description is the trimmed fragments, pre before post, joined by
\* single spaces; its Option view is absent when that text is empty after
\* trimming and holds the text otherwise.
C7_DescriptionJoining ==
    description.kind = "viewed" =>
        LET chained == fragments.pre \o fragments.post
            joined == Join([k \in DOMAIN chained |-> Trim(chained[k])], <<Space>>)
        IN  /\ description.text = joined
            /\ description.option =
                   IF Trim(joined) = <<>> THEN None ELSE Some(joined)

=============================================================================
